---- MODULE Spec2Model ----
(***************************************************************************)
(* rippkgs: building a package index from a registry (two index builders:  *)
(* src/bin/index/main.rs on rusqlite and rippkgs-index/src/main.rs on      *)
(* sqlx) and the fuzzy search over the index (src/bin/search/fuzzy.rs).    *)
(*                                                                         *)
(* Strings are sequences of one-character strings.  An Option<T> is a set  *)
(* with at most one element: {} is None, {v} is Some(v).                   *)
(***************************************************************************)
EXTENDS Integers, Sequences, FiniteSets

VARIABLES store, fs, build, found

vars == <<store, fs, build, found>>

\* ------------------------------------------------------------------ bounds
MaxRows == 2       \* rows of a store handed to the search from outside
MaxResults == 2    \* largest num_results asked of the search

\* ----------------------------------------------------------------- options
None == {}
Some(v) == {v}
IsSome(o) == o # {}
Unwrap(o) == CHOOSE v \in o : TRUE
UnwrapOr(o, d) == IF o = {} THEN d ELSE CHOOSE v \in o : TRUE

Min(a, b) == IF a <= b THEN a ELSE b
SetMax(S) == CHOOSE m \in S : \A x \in S : x <= m
Perms(S) == {s \in [1..Cardinality(S) -> S] : \A i, j \in DOMAIN s : s[i] = s[j] => i = j}
Take(s, n) == SubSeq(s, 1, Min(n, Len(s)))
Range(s) == {s[i] : i \in DOMAIN s}

\* ------------------------------------------------------------------- names
\* The attributes a registry can hold, a pname, a version, the queries.
AttrNames == << <<"f","o","x">>, <<"c","r">> >>
Attrs == {AttrNames[i] : i \in DOMAIN AttrNames}
PName == <<"f","i","f","o","x">>
Version == <<"1">>
Queries == {<<>>, <<"f","x">>, <<"c">>}
SearchNames == {AttrNames[1], AttrNames[2], PName}

\* ------------------------------------------------------------------- paths
\* A path is absolute or relative and a sequence of components.
StoreRoot == [abs |-> TRUE, comps |-> <<"nix", "store">>]
OutPath == [abs |-> TRUE, comps |-> <<"nix", "store", "h1">>]
RelPath == [abs |-> FALSE, comps |-> <<"h2">>]
\* Path::join: an absolute argument replaces the base.
Join(base, p) == IF p.abs THEN p ELSE [abs |-> base.abs, comps |-> base.comps \o p.comps]
FsPaths == {OutPath, Join(StoreRoot, RelPath)}
Exists(files, p) == p \in files

\* ------------------------------------------------------------ fuzzy scorer
\* SkimMatcherV2::default() score configuration.
ScoreMatch == 16
GapStart == 3
GapExtension == 1
BonusHead == 8
BonusConsecutive == 4

\* The ways `pattern` lies in `choice` as a subsequence.
Alignments(choice, pattern) ==
    {f \in [1..Len(pattern) -> 1..Len(choice)] :
        /\ \A k \in 1..Len(pattern) : choice[f[k]] = pattern[k]
        /\ \A k \in 1..(Len(pattern) - 1) : f[k] < f[k + 1]}

RECURSIVE AlignScore(_, _)
AlignScore(f, k) ==
    IF k = 0 THEN 0
    ELSE AlignScore(f, k - 1) + ScoreMatch
         + (IF f[k] = 1 THEN BonusHead ELSE 0)
         + (IF k = 1 THEN 0
            ELSE IF f[k] = f[k - 1] + 1 THEN BonusConsecutive
            ELSE 0 - (GapStart + GapExtension * (f[k] - f[k - 1] - 2)))

\* MATCHER.fuzzy_match(choice, pattern): None when the pattern is no
\* subsequence of the choice, else the best alignment's score; the empty
\* pattern matches everything with score 0.
skim(choice, pattern) ==
    IF Len(pattern) = 0 THEN Some(0)
    ELSE IF Alignments(choice, pattern) = {} THEN None
    ELSE Some(SetMax({AlignScore(f, Len(pattern)) : f \in Alignments(choice, pattern)}))

\* The lazily initialised matcher shared by every call.
MATCHER == [choice \in Attrs \cup SearchNames |-> [pattern \in Queries |-> skim(choice, pattern)]]
fuzzy_match(choice, pattern) == MATCHER[choice][pattern]

\* Mutant: "no match" mapped to a large key instead of 0.
scalar_fuzzy_score_NoMatchHigh(choice, pattern) == UnwrapOr(fuzzy_match(choice, pattern), 1000)

\* The SQL function fuzzy_score(name, ?1).
scalar_fuzzy_score(choice, pattern) == UnwrapOr(fuzzy_match(choice, pattern), 0)

\* ------------------------------------------------------------------- store
\* The index file: whether it exists, whether it holds the packages table,
\* and the table's rows in rowid order.  A column holds NULL (None), a text
\* (Some) or, in a file written by something else, a value that is no text.
Blob == <<"#">>
NoStore == [file |-> FALSE, table |-> FALSE, rows |-> <<>>]

Err == [ok |-> FALSE, pkg |-> <<>>]
Ok(p) == [ok |-> TRUE, pkg |-> p]

\* Package::try_from(row): fails on a column of the wrong type.
TryFrom(r) == IF r.version = Some(Blob) THEN Err ELSE Ok(r)

\* SELECT * FROM packages ORDER BY fuzzy_score(name, ?1) DESC: the rows in
\* any order that is non-increasing in the score (SQL leaves ties open).
OrderBy(rows, query_str) ==
    {[i \in 1..Len(rows) |-> rows[p[i]]] : p \in
        {p \in Perms(1..Len(rows)) :
            \A i, j \in 1..Len(rows) :
                i < j => scalar_fuzzy_score(rows[p[i]].name, query_str)
                         >= scalar_fuzzy_score(rows[p[j]].name, query_str)}}

\* Mutant: the store path is looked up on the filesystem whatever the flag.
filter_AlwaysExists(package_res, filter_built, files) ==
    IF ~package_res.ok THEN TRUE
    ELSE IF package_res.pkg.store_path = None THEN FALSE
    ELSE Exists(files, Join(StoreRoot, Unwrap(package_res.pkg.store_path)))

\* The closure handed to Iterator::filter.
filter(package_res, filter_built, files) ==
    IF ~package_res.ok THEN TRUE
    ELSE IF package_res.pkg.store_path = None THEN FALSE
    ELSE IF ~filter_built THEN TRUE
    ELSE Exists(files, Join(StoreRoot, Unwrap(package_res.pkg.store_path)))

\* Mutant: one item too many.
take_OneMore(items, num_results) == Take(items, num_results + 1)

\* .take(num_results)
take(items, num_results) == Take(items, num_results)

\* .collect::<Result<Vec<_>, _>>()
collect(items) ==
    IF \E i \in DOMAIN items : ~items[i].ok THEN [kind |-> "err", pkgs |-> <<>>]
    ELSE [kind |-> "ok", pkgs |-> [i \in DOMAIN items |-> items[i].pkg]]

\* search(): every outcome the call can have on the store `db`.
search(query_str, db, num_results, filter_built, files) ==
    IF ~db.file \/ ~db.table THEN {[kind |-> "err", pkgs |-> <<>>]}
    ELSE {LET decoded == [i \in DOMAIN ord |-> TryFrom(ord[i])]
              Keep(x) == filter(x, filter_built, files)
          IN  collect(take(SelectSeq(decoded, Keep), num_results))
          : ord \in OrderBy(db.rows, query_str)}

NoSearch == [kind |-> "none", query |-> <<>>, n |-> 0, filter_built |-> FALSE, pkgs |-> <<>>]
NoBuild == [prog |-> "none", registry |-> <<>>, fault |-> "none", status |-> "none", ctx |-> "",
            overwrote |-> FALSE]

\* One run of the search command, up to the return of search().
Search(query_str, num_results, filter_built) ==
    /\ found.kind = "none"
    /\ \E res \in search(query_str, store, num_results, filter_built, fs) :
          found' = [kind |-> res.kind, query |-> query_str, n |-> num_results,
                    filter_built |-> filter_built, pkgs |-> res.pkgs]
    /\ UNCHANGED <<store, fs, build>>

\* The search command reports what search() returned and exits.
Report ==
    /\ found.kind # "none"
    /\ found' = NoSearch
    /\ UNCHANGED <<store, fs, build>>

\* The environment realises or collects a store path.
TouchFs(p) ==
    /\ fs' = IF p \in fs THEN fs \ {p} ELSE fs \cup {p}
    /\ found' = NoSearch
    /\ UNCHANGED <<store, build>>

\* --------------------------------------------- specification of the search
\* The search runs on whatever index file it is given.
ForeignRows ==
    {r \in [attribute : SearchNames, name : SearchNames,
            version : {Some(Version), Some(Blob)},
            store_path : {None, Some(OutPath), Some(RelPath)}] :
        /\ r.attribute = (IF r.name = PName THEN AttrNames[1] ELSE r.name)
        /\ r.version = Some(Blob) => r.store_path # Some(RelPath)}

RECURSIVE SeqsUpTo(_, _)
SeqsUpTo(S, n) ==
    IF n = 0 THEN {<<>>}
    ELSE SeqsUpTo(S, n - 1) \cup
         {Append(s, x) : s \in {t \in SeqsUpTo(S, n - 1) : Len(t) = n - 1}, x \in S}

SearchInit ==
    /\ \E rows \in SeqsUpTo(ForeignRows, MaxRows) :
          store = [file |-> TRUE, table |-> TRUE, rows |-> rows]
    /\ fs \in SUBSET FsPaths
    /\ build = NoBuild
    /\ found = NoSearch

SearchNext ==
    \/ \E q \in Queries, n \in 0..MaxResults, fb \in BOOLEAN : Search(q, n, fb)
    \/ Report
    \/ \E p \in FsPaths : TouchFs(p)

SearchSpec == SearchInit /\ [][SearchNext]_vars

\* ---------------------------------------------------------------- registry
\* A registry entry (PackageInfo): pname, version and the "out" output.
Entries ==
    {e \in [pname : {None, Some(PName)}, version : {None, Some(Version)},
            out : {None, Some(OutPath)}] :
        e.pname = None => (e.version # None /\ e.out # None)}
Registries == UNION {[D -> Entries] : D \in SUBSET Attrs}
EmptyRegistry == <<>>

\* What a run of an index builder leaves: the store, the registry whose
\* entries it went through (empty when it ended before), how it ended ("ok", "err": main returned Err, "panic":
\* the process aborted) and the error's context.
Res(db, reg, status, ctx) == [db |-> db, registry |-> reg, status |-> status, ctx |-> ctx]

\* Mutant: the previous index file is left in place.
remove_file_Keeps(db) == db

\* std::fs::remove_file(output), Ok or NotFound.
remove_file(db) == NoStore

\* Opening the index file creates it when it is missing (SQLITE_OPEN_CREATE,
\* File::options().create(true)); what is there is kept.
open_create(db) == [db EXCEPT !.file = TRUE]

\* The schema statement (Package::create_table(), queries/init.sql).
create_table(db) == [db EXCEPT !.table = TRUE]

\* ------------------------------------------- src/bin/index (rusqlite build)
\* PackageInfo::into_rippkgs_package.  write_index takes a Package from it for
\* every entry, and the search expects rows without a store path, so an entry
\* without "out" yields a Package whose store_path is None; an installable
\* entry without a version is fatal, and with no error to return the only
\* fatal end is a panic.
into_rippkgs_package(info, attribute) ==
    IF info.out # None /\ info.version = None
    THEN [fatal |-> TRUE, pkg |-> <<>>]
    ELSE [fatal |-> FALSE,
          pkg |-> [attribute |-> attribute, name |-> UnwrapOr(info.pname, attribute),
                   version |-> info.version, store_path |-> info.out]]

\* registry.into_iter().map(into_rippkgs_package).try_for_each(INSERT): the
\* rows the transaction holds after entry i and later ones, or how it failed.
\* failAt is the position of the INSERT that the storage refuses (0: none).
RECURSIVE try_for_each(_, _, _, _, _)
try_for_each(registry, order, i, rows, failAt) ==
    IF i > Len(order) THEN [rows |-> rows, status |-> "ok", ctx |-> ""]
    ELSE LET p == into_rippkgs_package(registry[order[i]], order[i])
         IN  IF p.fatal THEN [rows |-> rows, status |-> "panic", ctx |-> "missing version"]
             ELSE IF failAt = i
             THEN [rows |-> rows, status |-> "err", ctx |-> "inserting package into database"]
             ELSE try_for_each(registry, order, i + 1, Append(rows, p.pkg), failAt)

\* write_index(index, registry).  The transaction is rolled back when it is
\* dropped without a commit.
write_index(db, registry, order, fault, failAt) ==
    IF fault = "open" THEN Res(db, EmptyRegistry, "err", "connecting to index database")
    ELSE LET conn == open_create(db) IN
    IF fault = "schema" THEN Res(conn, EmptyRegistry, "err", "creating table in database")
    ELSE LET made == create_table(conn) IN
    IF fault = "begin" THEN Res(made, EmptyRegistry, "err", "starting transaction")
    ELSE IF fault = "prepare" THEN Res(made, EmptyRegistry, "err", "preparing INSERT query")
    ELSE LET tx == try_for_each(registry, order, 1, <<>>, IF fault = "insert" THEN failAt ELSE 0) IN
    IF tx.status # "ok" THEN Res(made, registry, tx.status, tx.ctx)
    ELSE IF fault = "commit" THEN Res(made, registry, "err", "committing database")
    ELSE Res([made EXCEPT !.rows = made.rows \o tx.rows], registry, "ok", "")

\* main() of src/bin/index.
index_main(db, registry, order, fault, failAt) ==
    IF fault = "remove" THEN Res(db, EmptyRegistry, "err", "removing previous index db")
    ELSE LET gone == remove_file(db) IN
    IF fault = "registry" THEN Res(gone, EmptyRegistry, "err", "reading registry JSON")
    ELSE IF fault = "subprocess" THEN Res(gone, EmptyRegistry, "panic", "nix eval failed")
    ELSE write_index(gone, registry, order, fault, failAt)

\* ---------------------------------------------- rippkgs-index (sqlx build)
\* Mutant: the name is the attribute even when there is a pname.
LegacyRow_NameIsAttr(attr, info) ==
    [attribute |-> attr, name |-> attr, version |-> info.version, store_path |-> info.out]

\* The row the loop body builds for an entry that has an "out" output.
LegacyRow(attr, info) ==
    [attribute |-> attr, name |-> UnwrapOr(info.pname, attr),
     version |-> info.version, store_path |-> info.out]

\* Mutant: an entry without a version is skipped like one without "out".
RECURSIVE legacy_loop_SkipsNoVersion(_, _, _, _, _)
legacy_loop_SkipsNoVersion(db, registry, order, i, failAt) ==
    IF i > Len(order) THEN Res(db, registry, "ok", "")
    ELSE LET attr == order[i]
             info == registry[attr]
         IN  IF info.out = None \/ info.version = None
             THEN legacy_loop_SkipsNoVersion(db, registry, order, i + 1, failAt)
             ELSE IF failAt = i
             THEN Res(db, registry, "err", "could not insert package into database")
             ELSE legacy_loop_SkipsNoVersion(
                      [db EXCEPT !.rows = Append(db.rows, LegacyRow(attr, info))],
                      registry, order, i + 1, failAt)

\* for (attr, info) in registry.into_iter() { ... }: every INSERT is its own
\* implicit transaction, so the rows written before a failure stay.
RECURSIVE legacy_loop(_, _, _, _, _)
legacy_loop(db, registry, order, i, failAt) ==
    IF i > Len(order) THEN Res(db, registry, "ok", "")
    ELSE LET attr == order[i]
             info == registry[attr]
         IN  IF info.out = None THEN legacy_loop(db, registry, order, i + 1, failAt)
             ELSE IF info.version = None
             THEN Res(db, registry, "panic", "Option::unwrap() on a None value")
             ELSE IF failAt = i
             THEN Res(db, registry, "err", "could not insert package into database")
             ELSE legacy_loop([db EXCEPT !.rows = Append(db.rows, LegacyRow(attr, info))],
                              registry, order, i + 1, failAt)

\* main() of rippkgs-index.
legacy_main(db, registry, order, fault, failAt) ==
    IF fault = "registry" THEN Res(db, EmptyRegistry, "err", "unable to read registry JSON")
    ELSE IF fault = "subprocess" THEN Res(db, EmptyRegistry, "panic", "nix-env failed")
    ELSE IF fault = "remove" THEN Res(db, EmptyRegistry, "err", "unable to create index db")
    ELSE LET gone == remove_file(db) IN
    IF fault = "open" THEN Res(gone, EmptyRegistry, "panic", "Result::unwrap() on an Err value")
    ELSE LET file == open_create(gone) IN
    IF fault = "connect" THEN Res(file, EmptyRegistry, "err", "unable to connect to index database")
    ELSE IF fault = "schema" THEN Res(file, EmptyRegistry, "err", "unable to initialize database")
    ELSE legacy_loop(create_table(file), registry, order, 1, IF fault = "insert" THEN failAt ELSE 0)

IndexFaults == {"none", "remove", "registry", "subprocess", "open", "schema", "begin",
                "prepare", "insert", "commit"}
LegacyFaults == {"none", "registry", "subprocess", "remove", "open", "connect", "schema",
                 "insert"}

\* The inputs of a build: the registry, and the step the environment makes
\* fail, if any (failAt: which INSERT).  There is no registry when reading it
\* is what fails.
BuildInputs(faults) ==
    {in \in [registry : Registries, fault : faults, failAt : 0..Cardinality(Attrs)] :
        /\ in.failAt > 0 <=> in.fault = "insert"
        /\ in.fault \in {"registry", "subprocess"} => in.registry = EmptyRegistry}

Built(prog, in, r) ==
    /\ store' = r.db
    /\ build' = [prog |-> prog, registry |-> r.registry, fault |-> in.fault,
                 status |-> r.status, ctx |-> r.ctx,
                 overwrote |-> (r.status = "ok" /\ Range(store.rows) \ Range(r.db.rows) # {})]
    /\ UNCHANGED <<fs, found>>

\* One run of the index builder of src/bin/index; the HashMap hands out the
\* registry's entries in some order.
IndexBuild ==
    /\ found.kind = "none"
    /\ \E in \in BuildInputs(IndexFaults) : \E order \in Perms(DOMAIN in.registry) :
          Built("index", in, index_main(store, in.registry, order, in.fault, in.failAt))

\* One run of the sqlx index builder.
LegacyBuild ==
    /\ found.kind = "none"
    /\ \E in \in BuildInputs(LegacyFaults) : \E order \in Perms(DOMAIN in.registry) :
          Built("legacy", in, legacy_main(store, in.registry, order, in.fault, in.failAt))

Init ==
    /\ store = NoStore
    /\ fs = {OutPath}
    /\ build = NoBuild
    /\ found = NoSearch

Next ==
    \/ LegacyBuild
    \/ IndexBuild
    \/ \E q \in Queries, n \in {0, MaxResults}, fb \in BOOLEAN : Search(q, n, fb)
    \/ Report
    \/ TouchFs(OutPath)

Spec == Init /\ [][Next]_vars

\* ------------------------------------------------------ claims: the build
\* The rows of `db` for attribute a, the attributes of registry R that have
\* an "out" output, and the name an entry is to be indexed under.
RowsOf(db, a) == {i \in DOMAIN db.rows : db.rows[i].attribute = a}
Installable(R) == {a \in DOMAIN R : R[a].out # None}
FallbackName(R, a) == IF R[a].pname = None THEN a ELSE Unwrap(R[a].pname)
Failed(b) == b.status \in {"err", "panic"}

\* C1: after a failed build the store holds every record of that build or
\* none of them, never a non-empty strict subset.
C1_AllOrNothing ==
    [][(Failed(build') /\ <<store, build>>' # <<store, build>>)
        => \/ store' = store
           \/ store'.rows = <<>>
           \/ \A a \in Installable(build'.registry) : RowsOf(store', a) # {}]_vars

\* C2: a failed build leaves the store exactly as it was before the build
\* (and leaves no store where there was none).
C2_FailedBuildKeepsStore ==
    [][(Failed(build') /\ <<store, build>>' # <<store, build>>) => store' = store]_vars

C7_MissingVersionIsTypedError ==
    (build.prog # "none" /\ build.fault = "none") =>
        IF \E a \in Installable(build.registry) : build.registry[a].version = None
        THEN build.status = "err" /\ build.ctx = "MissingVersion"
        ELSE build.status = "ok"

\* C8: once a build has succeeded on registry R, and until the next build,
\* every record of the store is the record of an entry of R.
C8_FullRebuild ==
    build.status = "ok" =>
        \A i \in DOMAIN store.rows :
            LET r == store.rows[i] IN
            /\ r.attribute \in DOMAIN build.registry
            /\ r.version = build.registry[r.attribute].version
            /\ r.store_path = build.registry[r.attribute].out

C8_Witness ==
    /\ build.status = "ok"
    /\ build.overwrote
    /\ store.rows # <<>>
    /\ found.kind = "ok"

\* C9: every indexed entry's record is named by the entry's pname, or by its
\* attribute when it has no pname, and carries the registry key as attribute.
C9_NameFallback ==
    build.status = "ok" =>
        /\ \A a \in Installable(build.registry) :
              \E i \in DOMAIN store.rows :
                  /\ store.rows[i].attribute = a
                  /\ store.rows[i].name = FallbackName(build.registry, a)
        /\ \A i \in DOMAIN store.rows :
              /\ store.rows[i].attribute \in DOMAIN build.registry
              /\ store.rows[i].name = FallbackName(build.registry, store.rows[i].attribute)

C9_Witness ==
    /\ build.status = "ok"
    /\ \E i, j \in DOMAIN store.rows :
          /\ build.registry[store.rows[i].attribute].pname = None
          /\ store.rows[i].name = store.rows[i].attribute
          /\ build.registry[store.rows[j].attribute].pname # None
          /\ store.rows[j].name = PName

\* ------------------------------------------------------- claims: the search
\* What the claims call a surviving row, and its sort key, for the search
\* whose outcome `found` holds.
Survivor(r) ==
    /\ IsSome(r.store_path)
    /\ found.filter_built => Join(StoreRoot, Unwrap(r.store_path)) \in fs
NumSurvivors == Cardinality({i \in DOMAIN store.rows : Survivor(store.rows[i])})
Key(r) == scalar_fuzzy_score(r.name, found.query)
Matches(r) == fuzzy_match(r.name, found.query) # None
Corrupt(r) == ~TryFrom(r).ok

\* C4: whenever some row of the store fails to decode, the search returns an
\* error and no result list, wherever the row falls in the score order.
C4_CorruptRowAborts ==
    (found.kind # "none" /\ \E i \in DOMAIN store.rows : Corrupt(store.rows[i]))
        => found.kind = "err"

\* C5: a successful search returns min(N, number of survivors) records, in
\* non-increasing order of score, and no survivor left out scores higher than
\* a returned one.
C5_LimitAndOrder ==
    found.kind = "ok" =>
        /\ Len(found.pkgs) = Min(found.n, NumSurvivors)
        /\ \A i, j \in DOMAIN found.pkgs :
              i < j => Key(found.pkgs[i]) >= Key(found.pkgs[j])
        /\ \A r \in Range(store.rows) :
              (Survivor(r) /\ r \notin Range(found.pkgs))
                  => \A i \in DOMAIN found.pkgs : Key(found.pkgs[i]) >= Key(r)

C5_Witness ==
    /\ found.kind = "ok"
    /\ found.n >= 1
    /\ Len(found.pkgs) = found.n
    /\ \E r \in Range(store.rows) :
          /\ Survivor(r)
          /\ r \notin Range(found.pkgs)
          /\ Key(r) < Key(found.pkgs[Len(found.pkgs)])

\* C6: every returned record has a store path and, with filter_built, one
\* that exists under the store root; every row with a store path (existing,
\* when filter_built) is returned unless the limit cut it off; without
\* filter_built a row whose store path does not exist is kept.
C6_PostFilters ==
    found.kind = "ok" =>
        /\ \A i \in DOMAIN found.pkgs : Survivor(found.pkgs[i])
        /\ Len(found.pkgs) < found.n =>
              \A r \in Range(store.rows) : Survivor(r) => r \in Range(found.pkgs)

C6_Witness ==
    /\ found.kind = "ok"
    /\ found.filter_built
    /\ Len(found.pkgs) >= 1
    /\ Len(found.pkgs) < found.n
    /\ \E r \in Range(store.rows) :
          IsSome(r.store_path) /\ Join(StoreRoot, Unwrap(r.store_path)) \notin fs

====
